---- MODULE Spec2Model ----
(***************************************************************************)
(* State-machine model of src/main.js: the road grid                       *)
(* (createFixedRoadGrid), the grid router (buildGridRoute), the map        *)
(* drawing (drawMap), the camera transform (updateMapTransform,            *)
(* renderNavRoute), the GPS drift callbacks (initGPSTracking), the         *)
(* interval timers and the click handlers that drive them.                 *)
(*                                                                         *)
(* Arithmetic.  The program computes in IEEE doubles; the model computes   *)
(* in exact integers:                                                      *)
(*   - map coordinates are whole virtual pixels; the lattice fractions     *)
(*     hYs / vXs are kept in hundredths (FRAC_DEN) and the extents used    *)
(*     make every lattice line frac * extent a whole number;               *)
(*   - the blend target (sy + ey) * 0.45 is the rational                   *)
(*     BLEND_NUM * (sy + ey) / FRAC_DEN, compared without rounding;        *)
(*   - a latitude / longitude is a whole number of 1/111320 degree, so     *)
(*     that (lat - base.lat) * 111320 is the difference of two such        *)
(*     numbers; Math.cos is a table in thousandths over whole degrees;     *)
(*   - the translation of the transform is kept in tenths of a pixel       *)
(*     (ZOOM_DEN), so that ZOOM = 2.2 is the rational ZOOM_NUM / ZOOM_DEN. *)
(*   - line widths are kept in tenths of a pixel (WIDTH_DEN), the trip     *)
(*     progress in hundredths of a percent.                                *)
(* Rounding of doubles is therefore outside the model.  The canvas of the  *)
(* navigation map is reset by the assignment to its width before every     *)
(* drawMap of renderNavRoute, so no context attribute survives from one    *)
(* handler to the next; the drawing surface is followed under DrawSpec.    *)
(***************************************************************************)
EXTENDS Integers, Sequences, FiniteSets, TLC

VARIABLES
    screen,          \* which screen carries the class 'active': "request" | "map"
    hasGeo,          \* navigator.geolocation is present
    gpsWatch,        \* the watchPosition registration: [on, scene]
    gpsBaseLatLng,   \* [set, lat, lng]; set = FALSE models null
    gpsOffsetX,
    gpsOffsetY,
    screenW,
    screenH,
    currentCarPos,   \* [x, y] on the virtual map
    mapTransformEl,  \* TRUE once mapTransformEl = mapCanvas
    transform,       \* style.transform of the map canvas: [applied, tx, ty, scale]
    routeArgs,       \* the arguments of the latest buildGridRoute call
    route,           \* the route returned by the latest buildGridRoute call
    scene,           \* number of renderNavRoute calls so far
    glitchTriggered,
    countdown,       \* the avatar handler's countdown
    glitchTimer,     \* the avatar handler's interval is running
    glitchStage,     \* pending timeout of triggerFullGlitch: 0 none, 1, 2, 3
    popupVisible,
    lastOp,          \* the handler that ran last
    rawOffset,       \* the unclamped offset computed by the latest position callback
    glitchCalls,     \* calls so far: [timers, full, popup]
    requestTimer,
    reqInterval,     \* id of the live request-timer interval, 0 when none is live
    tripOn,          \* the interval held by tripInterval is live
    tripProgress,    \* `progress` of the live trip interval, in hundredths of a percent
    tripStep,        \* its increment per tick, in hundredths of a percent
    roadOn,          \* the interval held by roadRotationInterval is live
    roadIdx,         \* `idx` of the live road-name interval
    roadSet,         \* the road-name list it rotates: "none" | "dadar" | "jogeshwari"
    gridArgs,        \* the arguments of the latest createFixedRoadGrid call
    grid,            \* the grid it returned: [roads, hYs, vXs]
    drawArgs,        \* the arguments drawMap is called with: [roads, buildings, options]
    ctx,             \* the attributes of the 2D context drawMap draws on
    drawLog,         \* the drawing operations of the latest drawMap call
    prevLog          \* those of the call before it

vars == <<screen, hasGeo, gpsWatch, gpsBaseLatLng, gpsOffsetX, gpsOffsetY,
          screenW, screenH, currentCarPos, mapTransformEl, transform,
          routeArgs, route, scene, glitchTriggered, countdown, glitchTimer,
          glitchStage, popupVisible, lastOp, rawOffset, glitchCalls,
          requestTimer, reqInterval, tripOn, tripProgress, tripStep,
          roadOn, roadIdx, roadSet, gridArgs, grid, drawArgs, ctx, drawLog,
          prevLog>>

Abs(n) == IF n < 0 THEN -n ELSE n

Max(a, b) == IF a > b THEN a ELSE b

Min(a, b) == IF a < b THEN a ELSE b

Point(px, py) == [x |-> px, y |-> py]

(***************************************************************************)
(* createFixedRoadGrid: the lattice fractions, in hundredths.              *)
(***************************************************************************)
FRAC_DEN == 100

hYs == <<6, 14, 22, 30, 38, 46, 54, 62, 70, 78, 86, 94>>

vXs == <<8, 20, 32, 44, 56, 68, 80, 92>>

\* f * mapW of the source, for a fraction f given in hundredths.
LatticeLine(frac, extent) == (frac * extent) \div FRAC_DEN

HorizontalLines(mapH) == { LatticeLine(hYs[i], mapH) : i \in 1..Len(hYs) }

VerticalLines(mapW) == { LatticeLine(vXs[i], mapW) : i \in 1..Len(vXs) }

\* How far a grid road runs past the edge of the map.
OVERHANG == 50

\* Line widths are kept in tenths of a pixel.
WIDTH_DEN == 10

Road(p, q, w, isMain) == [points |-> <<p, q>>, width |-> w, main |-> isMain]

\* hYs.forEach((frac, i) => ...), with i counted from 1.
HorizontalRoad(i, mapW, mapH) ==
    LET y == LatticeLine(hYs[i], mapH)
        isMain == (i - 1) % 3 = 0
    IN  Road(Point(-OVERHANG, y), Point(mapW + OVERHANG, y),
             IF isMain THEN 8 * WIDTH_DEN ELSE 3 * WIDTH_DEN, isMain)

\* vXs.forEach((frac, i) => ...), with i counted from 1.
VerticalRoad(i, mapW, mapH) ==
    LET x == LatticeLine(vXs[i], mapW)
        isMain == (i - 1) % 3 = 0
    IN  Road(Point(x, -OVERHANG), Point(x, mapH + OVERHANG),
             IF isMain THEN 7 * WIDTH_DEN ELSE 25, isMain)

\* The two angled roads.
AngledRoads(mapW, mapH) ==
    << Road(Point(LatticeLine(8, mapW), LatticeLine(8, mapH)),
            Point(LatticeLine(55, mapW), LatticeLine(42, mapH)), 4 * WIDTH_DEN, FALSE),
       Road(Point(LatticeLine(65, mapW), LatticeLine(15, mapH)),
            Point(LatticeLine(88, mapW), LatticeLine(65, mapH)), 35, FALSE) >>

\* A grid whose first angled road runs along the first vertical lattice line.
createFixedRoadGridStraightened(mapW, mapH) ==
    [ roads |-> [i \in 1..Len(hYs) |-> HorizontalRoad(i, mapW, mapH)]
                \o [i \in 1..Len(vXs) |-> VerticalRoad(i, mapW, mapH)]
                \o << Road(Point(LatticeLine(8, mapW), -OVERHANG),
                           Point(LatticeLine(8, mapW), mapH + OVERHANG),
                           4 * WIDTH_DEN, FALSE),
                      AngledRoads(mapW, mapH)[2] >>,
      hYs |-> hYs,
      vXs |-> vXs ]

createFixedRoadGrid(mapW, mapH) ==
    [ roads |-> [i \in 1..Len(hYs) |-> HorizontalRoad(i, mapW, mapH)]
                \o [i \in 1..Len(vXs) |-> VerticalRoad(i, mapW, mapH)]
                \o AngledRoads(mapW, mapH),
      hYs |-> hYs,
      vXs |-> vXs ]

(***************************************************************************)
(* buildGridRoute                                                          *)
(***************************************************************************)
BLEND_NUM == 45

SNAP_THRESHOLD == 3

JOG_THRESHOLD == 20

\* The forEach of nearestVX / nearestHY from index i on, with the running
\* `best`; the target is the rational tNum / tDen.
RECURSIVE NearestFrom(_, _, _, _, _, _)
NearestFrom(fracs, extent, tNum, tDen, i, best) ==
    IF i > Len(fracs) THEN best
    ELSE LET cand == LatticeLine(fracs[i], extent)
         IN  NearestFrom(fracs, extent, tNum, tDen, i + 1,
                 IF Abs(cand * tDen - tNum) < Abs(best * tDen - tNum)
                 THEN cand ELSE best)

\* A slip that keeps the fraction instead of the scaled line (best = f).
RECURSIVE NearestFromUnscaled(_, _, _, _, _, _)
NearestFromUnscaled(fracs, extent, tNum, tDen, i, best) ==
    IF i > Len(fracs) THEN best
    ELSE LET cand == LatticeLine(fracs[i], extent)
         IN  NearestFromUnscaled(fracs, extent, tNum, tDen, i + 1,
                 IF Abs(cand * tDen - tNum) < Abs(best * tDen - tNum)
                 THEN fracs[i] ELSE best)

NearestLineUnscaled(fracs, extent, tNum, tDen) ==
    NearestFromUnscaled(fracs, extent, tNum, tDen, 1, LatticeLine(fracs[1], extent))

\* A lookup whose comparison is <=, so that the last of two equally near
\* lines wins.
RECURSIVE NearestFromLastWins(_, _, _, _, _, _)
NearestFromLastWins(fracs, extent, tNum, tDen, i, best) ==
    IF i > Len(fracs) THEN best
    ELSE LET cand == LatticeLine(fracs[i], extent)
         IN  NearestFromLastWins(fracs, extent, tNum, tDen, i + 1,
                 IF Abs(cand * tDen - tNum) <= Abs(best * tDen - tNum)
                 THEN cand ELSE best)

NearestLineLastWins(fracs, extent, tNum, tDen) ==
    NearestFromLastWins(fracs, extent, tNum, tDen, 1, LatticeLine(fracs[1], extent))

\* nearestVX / nearestHY: best starts at the first line, a later line wins
\* only when strictly nearer.
NearestLine(fracs, extent, tNum, tDen) ==
    NearestFrom(fracs, extent, tNum, tDen, 1, LatticeLine(fracs[1], extent))

\* A variant that drops a waypoint equal to the point before it.
PushDistinct(r, p) == IF r[Len(r)] = p THEN r ELSE Append(r, p)

buildGridRouteDedup(sx, sy, ex, ey, hFracs, vFracs, mapW, mapH) ==
    LET vRoad1 == NearestLine(vFracs, mapW, sx, 1)
        hMid   == NearestLine(hFracs, mapH, BLEND_NUM * (sy + ey), FRAC_DEN)
        vRoad2 == NearestLine(vFracs, mapW, ex, 1)
        hEnd   == NearestLine(hFracs, mapH, ey, 1)
        r0 == <<Point(sx, sy)>>
        r1 == IF Abs(vRoad1 - sx) > SNAP_THRESHOLD
              THEN PushDistinct(r0, Point(vRoad1, sy)) ELSE r0
        r2 == PushDistinct(r1, Point(vRoad1, hMid))
        r3 == PushDistinct(r2, Point(vRoad2, hMid))
        r4 == IF Abs(hEnd - hMid) > JOG_THRESHOLD
              THEN LET r4a == PushDistinct(r3, Point(vRoad2, hEnd))
                   IN  IF Abs(vRoad2 - ex) > SNAP_THRESHOLD
                       THEN PushDistinct(r4a, Point(ex, hEnd)) ELSE r4a
              ELSE r3
    IN  PushDistinct(r4, Point(ex, ey))

\* A variant that ends the route on the destination road instead of at end.
buildGridRouteSnapEnd(sx, sy, ex, ey, hFracs, vFracs, mapW, mapH) ==
    LET vRoad1 == NearestLine(vFracs, mapW, sx, 1)
        hMid   == NearestLine(hFracs, mapH, BLEND_NUM * (sy + ey), FRAC_DEN)
        vRoad2 == NearestLine(vFracs, mapW, ex, 1)
        hEnd   == NearestLine(hFracs, mapH, ey, 1)
        r0 == <<Point(sx, sy)>>
        r1 == IF Abs(vRoad1 - sx) > SNAP_THRESHOLD
              THEN Append(r0, Point(vRoad1, sy)) ELSE r0
        r2 == Append(r1, Point(vRoad1, hMid))
        r3 == Append(r2, Point(vRoad2, hMid))
        r4 == IF Abs(hEnd - hMid) > JOG_THRESHOLD
              THEN LET r4a == Append(r3, Point(vRoad2, hEnd))
                   IN  IF Abs(vRoad2 - ex) > SNAP_THRESHOLD
                       THEN Append(r4a, Point(ex, hEnd)) ELSE r4a
              ELSE r3
    IN  Append(r4, Point(vRoad2, hEnd))

\* A variant that turns at the midpoint (sy + ey) * 0.5.
buildGridRouteMidpoint(sx, sy, ex, ey, hFracs, vFracs, mapW, mapH) ==
    LET vRoad1 == NearestLine(vFracs, mapW, sx, 1)
        hMid   == NearestLine(hFracs, mapH, sy + ey, 2)
        vRoad2 == NearestLine(vFracs, mapW, ex, 1)
        hEnd   == NearestLine(hFracs, mapH, ey, 1)
        r0 == <<Point(sx, sy)>>
        r1 == IF Abs(vRoad1 - sx) > SNAP_THRESHOLD
              THEN Append(r0, Point(vRoad1, sy)) ELSE r0
        r2 == Append(r1, Point(vRoad1, hMid))
        r3 == Append(r2, Point(vRoad2, hMid))
        r4 == IF Abs(hEnd - hMid) > JOG_THRESHOLD
              THEN LET r4a == Append(r3, Point(vRoad2, hEnd))
                   IN  IF Abs(vRoad2 - ex) > SNAP_THRESHOLD
                       THEN Append(r4a, Point(ex, hEnd)) ELSE r4a
              ELSE r3
    IN  Append(r4, Point(ex, ey))

buildGridRoute(sx, sy, ex, ey, hFracs, vFracs, mapW, mapH) ==
    LET vRoad1 == NearestLine(vFracs, mapW, sx, 1)
        hMid   == NearestLine(hFracs, mapH, BLEND_NUM * (sy + ey), FRAC_DEN)
        vRoad2 == NearestLine(vFracs, mapW, ex, 1)
        hEnd   == NearestLine(hFracs, mapH, ey, 1)
        r0 == <<Point(sx, sy)>>
        r1 == IF Abs(vRoad1 - sx) > SNAP_THRESHOLD
              THEN Append(r0, Point(vRoad1, sy)) ELSE r0
        r2 == Append(r1, Point(vRoad1, hMid))
        r3 == Append(r2, Point(vRoad2, hMid))
        r4 == IF Abs(hEnd - hMid) > JOG_THRESHOLD
              THEN LET r4a == Append(r3, Point(vRoad2, hEnd))
                   IN  IF Abs(vRoad2 - ex) > SNAP_THRESHOLD
                       THEN Append(r4a, Point(ex, hEnd)) ELSE r4a
              ELSE r3
    IN  Append(r4, Point(ex, ey))

(***************************************************************************)
(* GPS drift: the arithmetic of the watchPosition success callback.        *)
(***************************************************************************)
METERS_PER_DEG == 111320

PX_PER_METER == 3

CLAMP_X == 100

CLAMP_Y == 150

COS_DEN == 1000

\* A latitude of `deg` whole degrees plus `m` units of 1/111320 degree.
LatOf(deg, m) == deg * METERS_PER_DEG + m

\* Math.cos(lat * Math.PI / 180) in thousandths, by whole degree.
CosMilli(lat) ==
    LET deg == Abs(lat) \div METERS_PER_DEG
    IN  CASE deg = 0  -> 1000
          [] deg = 60 -> 500
          [] deg = 90 -> 0

\* dLat = (lat - gpsBaseLatLng.lat) * 111320
DLat(lat, base) == lat - base.lat

\* dLng = (lng - gpsBaseLatLng.lng) * 111320 * Math.cos(lat * Math.PI / 180)
DLng(lat, lng, base) == ((lng - base.lng) * CosMilli(lat)) \div COS_DEN

\* The offsets of lines 49-50, before the clamp.
RawOffset(lat, lng, base) ==
    Point(DLng(lat, lng, base) * PX_PER_METER, (-DLat(lat, base)) * PX_PER_METER)

\* A clamp with the limits of the two axes exchanged.
ClampOffsetSwapped(raw) ==
    Point(Max(-CLAMP_Y, Min(CLAMP_Y, raw.x)), Max(-CLAMP_X, Min(CLAMP_X, raw.y)))

\* Lines 53-54: Math.max(-100, Math.min(100, x)), Math.max(-150, Math.min(150, y)).
ClampOffset(raw) ==
    Point(Max(-CLAMP_X, Min(CLAMP_X, raw.x)), Max(-CLAMP_Y, Min(CLAMP_Y, raw.y)))

(***************************************************************************)
(* Camera transform.                                                       *)
(***************************************************************************)
ZOOM_NUM == 22

ZOOM_DEN == 10

MAP_SCALE == 1200

NoTransform == [applied |-> FALSE, tx |-> 0, ty |-> 0, scale |-> 0]

\* tx, ty of updateMapTransform, in units of 1/ZOOM_DEN pixel.
TransformFor(sw, sh, car, ox, oy) ==
    [applied |-> TRUE,
     tx |-> (ZOOM_DEN * sw) \div 2 - car.x * ZOOM_NUM + ZOOM_DEN * ox,
     ty |-> (ZOOM_DEN * sh) \div 2 - car.y * ZOOM_NUM + ZOOM_DEN * oy,
     scale |-> ZOOM_NUM]

\* A transform that forgets the zoom factor on the tracked position.
updateMapTransformNoZoom(el, cur, sw, sh, car, ox, oy) ==
    IF ~el THEN cur
    ELSE [applied |-> TRUE,
          tx |-> (ZOOM_DEN * sw) \div 2 - car.x * ZOOM_DEN + ZOOM_DEN * ox,
          ty |-> (ZOOM_DEN * sh) \div 2 - car.y * ZOOM_DEN + ZOOM_DEN * oy,
          scale |-> ZOOM_NUM]

\* updateMapTransform: the new style.transform, given the element (set or
\* not), the transform now on it, and the globals it reads.
updateMapTransform(el, cur, sw, sh, car, ox, oy) ==
    IF ~el THEN cur ELSE TransformFor(sw, sh, car, ox, oy)

\* initGPSTracking: the watch registration after the call.
initGPSTracking(geo, watch, sc) ==
    IF ~geo THEN watch ELSE [on |-> TRUE, scene |-> sc]

(***************************************************************************)
(* Inputs of the handlers.                                                 *)
(***************************************************************************)
\* clientWidth / clientHeight of the map container at a render.
Screens == { <<375, 667>>, <<414, 896>> }

Lats == { LatOf(0, 0), LatOf(0, 20), LatOf(0, 60), LatOf(60, 0) }

Lngs == { 0, 20, 60 }

REQUEST_SECONDS == 15

\* The id setInterval returns for the first request-timer interval; the k-th
\* interval started by startRequestTimer has id k.
reqTimerInterval == 1

GLITCH_COUNTDOWN == 10

TRIP_STEP_ACCEPT == 12

TRIP_STEP_POPUP == 10

TRIP_FULL == 10000

ROAD_NAMES == 5

AcceptStart == Point(580, 850)

AcceptEnd == Point(260, 120)

PopupStart == Point(400, 800)

PopupEnd == Point(900, 180)

NoArgs == [sx |-> 0, sy |-> 0, ex |-> 0, ey |-> 0, mapW |-> 0, mapH |-> 0]

NoBase == [set |-> FALSE, lat |-> 0, lng |-> 0]

NoWatch == [on |-> FALSE, scene |-> 0]

NoExtent == [mapW |-> 0, mapH |-> 0]

NoGrid == [roads |-> <<>>, hYs |-> <<>>, vXs |-> <<>>]

(***************************************************************************)
(* drawMap.  A drawing is the sequence of its painting operations (and     *)
(* clearRect); each is logged with its geometry and with the context       *)
(* attributes it paints with.  Coordinates are whole pixels, line widths   *)
(* and the window size are in tenths of a pixel (WIDTH_DEN).  A drawing in *)
(* progress is [ctx, log].                                                 *)
(***************************************************************************)
\* The attributes of a context that getContext('2d') has just created.
DefaultContext ==
    [ fillStyle |-> "#000", strokeStyle |-> "#000", lineWidth |-> WIDTH_DEN,
      lineCap |-> "butt", lineJoin |-> "miter", lineDash |-> <<>>,
      font |-> "10px sans-serif" ]

\* The attributes no operation of the kind reads are blanked.
FillState(c) ==
    [ c EXCEPT !.strokeStyle = "", !.lineWidth = 0, !.lineCap = "",
               !.lineJoin = "", !.lineDash = <<>>, !.font = "" ]

StrokeState(c) == [ c EXCEPT !.fillStyle = "", !.font = "" ]

TextState(c) ==
    [ c EXCEPT !.strokeStyle = "", !.lineWidth = 0, !.lineCap = "",
               !.lineJoin = "", !.lineDash = <<>> ]

NoState == FillState([DefaultContext EXCEPT !.fillStyle = ""])

SetAttr(d, attr, value) == [d EXCEPT !.ctx[attr] = value]

Logged(d, name, geometry, state) ==
    [d EXCEPT !.log = Append(@, [op |-> name, args |-> geometry, state |-> state])]

\* fillRect, or fill of the current path
FillOp(d, name, geometry) == Logged(d, name, geometry, FillState(d.ctx))

\* strokeRect, or stroke of the current path
StrokeOp(d, name, geometry) == Logged(d, name, geometry, StrokeState(d.ctx))

\* fillText
TextOp(d, geometry) == Logged(d, "fillText", geometry, TextState(d.ctx))

\* The window loops of a lit building: wx outer, wy inner.
WindowsAcross(b) == IF b.w > 6 THEN b.w \div 7 ELSE 0

WindowsDown(b) == IF b.h > 6 THEN (b.h - 1) \div 6 ELSE 0

RECURSIVE DrawWindows(_, _, _)
DrawWindows(d, b, k) ==
    IF k > WindowsAcross(b) * WindowsDown(b) THEN d
    ELSE LET wx == b.x + 3 + 7 * ((k - 1) \div WindowsDown(b))
             wy == b.y + 3 + 6 * ((k - 1) % WindowsDown(b))
         IN  DrawWindows(FillOp(d, "fillRect", <<wx, wy, 3 * WIDTH_DEN, 25>>), b, k + 1)

DrawBuilding(d, b) ==
    LET d1 == FillOp(SetAttr(d, "fillStyle", b.color), "fillRect", <<b.x, b.y, b.w, b.h>>)
        d2 == SetAttr(SetAttr(d1, "strokeStyle", "rgba(30, 40, 55, 0.5)"), "lineWidth", 5)
        d3 == StrokeOp(d2, "strokeRect", <<b.x, b.y, b.w, b.h>>)
    IN  IF b.lit /\ b.w > 22 /\ b.h > 18
        THEN DrawWindows(SetAttr(d3, "fillStyle", "rgba(255, 200, 80, 0.15)"), b, 1)
        ELSE d3

RECURSIVE DrawBuildings(_, _, _)
DrawBuildings(d, buildings, i) ==
    IF i > Len(buildings) THEN d
    ELSE DrawBuildings(DrawBuilding(d, buildings[i]), buildings, i + 1)

RECURSIVE DrawParks(_, _, _)
DrawParks(d, parks, i) ==
    IF i > Len(parks) THEN d
    ELSE DrawParks(FillOp(SetAttr(d, "fillStyle", "rgba(15, 55, 25, 0.4)"),
                          "fill", <<"arc", parks[i].x, parks[i].y, parks[i].r>>),
                   parks, i + 1)

DrawRoad(d, r) ==
    LET d1 == SetAttr(d, "strokeStyle",
                      IF r.main THEN "rgba(55, 65, 85, 0.95)" ELSE "rgba(35, 45, 60, 0.7)")
        d2 == SetAttr(SetAttr(SetAttr(d1, "lineWidth", r.width), "lineCap", "round"),
                      "lineJoin", "round")
        d3 == StrokeOp(d2, "stroke", r.points)
    IN  IF r.main
        THEN LET d4 == SetAttr(d3, "lineDash", <<6, 10>>)
                 d5 == SetAttr(SetAttr(d4, "strokeStyle", "rgba(90, 100, 120, 0.4)"),
                               "lineWidth", WIDTH_DEN)
             IN  SetAttr(StrokeOp(d5, "stroke", r.points), "lineDash", <<>>)
        ELSE d3

RECURSIVE DrawRoads(_, _, _)
DrawRoads(d, roads, i) ==
    IF i > Len(roads) THEN d
    ELSE DrawRoads(DrawRoad(d, roads[i]), roads, i + 1)

\* The route line: the glow, then the main line over the same path.
DrawRoute(d, rp) ==
    LET d1 == SetAttr(SetAttr(d, "strokeStyle", "rgba(59, 130, 246, 0.12)"),
                      "lineWidth", 22 * WIDTH_DEN)
        d2 == StrokeOp(SetAttr(SetAttr(d1, "lineCap", "round"), "lineJoin", "round"),
                       "stroke", rp)
        d3 == SetAttr(SetAttr(d2, "strokeStyle", "#3b82f6"), "lineWidth", 6 * WIDTH_DEN)
    IN  StrokeOp(d3, "stroke", rp)

\* A pin: a disc, its white outline, a white dot.
DrawPin(d, p, color, outer, inner) ==
    LET d1 == FillOp(SetAttr(d, "fillStyle", color), "fill", <<"arc", p.x, p.y, outer>>)
        d2 == SetAttr(SetAttr(d1, "strokeStyle", "#fff"), "lineWidth", 3 * WIDTH_DEN)
        d3 == StrokeOp(d2, "stroke", <<"arc", p.x, p.y, outer>>)
    IN  FillOp(SetAttr(d3, "fillStyle", "#fff"), "fill", <<"arc", p.x, p.y, inner>>)

RECURSIVE DrawLabels(_, _, _)
DrawLabels(d, labels, i) ==
    IF i > Len(labels) THEN d
    ELSE LET d1 == SetAttr(SetAttr(d, "font", "600 11px Inter, sans-serif"),
                           "fillStyle", "rgba(200, 200, 220, 0.55)")
         IN  DrawLabels(TextOp(d1, <<labels[i].text, labels[i].x, labels[i].y>>),
                        labels, i + 1)

\* An option that is absent: a pin with on = FALSE, the empty sequence for
\* parks, route and labels.
NoPin == [on |-> FALSE, x |-> 0, y |-> 0]

\* drawMap(ctx, mapW, mapH, roads, buildings, options), from the context
\* attributes c; the result is [ctx, log].
drawMap(c, mapW, mapH, roads, buildings, options) ==
    LET d0 == Logged([ctx |-> c, log |-> <<>>], "clearRect", <<0, 0, mapW, mapH>>, NoState)
        d1 == FillOp(SetAttr(d0, "fillStyle", "#0d1520"), "fillRect", <<0, 0, mapW, mapH>>)
        d2 == IF options.showWater
              THEN FillOp(SetAttr(d1, "fillStyle", "rgba(8, 25, 50, 0.5)"), "fill",
                          <<"ellipse", mapW + 60, mapH \div 2, 180, 500>>)
              ELSE d1
        d3 == DrawBuildings(d2, buildings, 1)
        d4 == DrawParks(d3, options.parks, 1)
        d5 == DrawRoads(d4, roads, 1)
        d6 == IF options.route # <<>> THEN DrawRoute(d5, options.route) ELSE d5
        d7 == IF options.dropPin.on
              THEN DrawPin(d6, options.dropPin, "#ff4444", 12, 5) ELSE d6
        d8 == IF options.pickupPin.on
              THEN DrawPin(d7, options.pickupPin, "#00d26a", 10, 4) ELSE d7
    IN  DrawLabels(d8, options.labels, 1)

NoDraw == [mapW |-> 0, mapH |-> 0, roads |-> <<>>, buildings |-> <<>>,
           options |-> [showWater |-> FALSE, parks |-> <<>>, route |-> <<>>,
                        dropPin |-> NoPin, pickupPin |-> NoPin, labels |-> <<>>]]

(***************************************************************************)
(* The application.                                                        *)
(***************************************************************************)
\* The module-level state after the script has loaded, routeArgs apart.
LoadedState ==
    /\ screen = "request"
    /\ hasGeo \in BOOLEAN
    /\ gpsWatch = NoWatch
    /\ gpsBaseLatLng = NoBase
    /\ gpsOffsetX = 0
    /\ gpsOffsetY = 0
    /\ screenW = 0      \* undefined until renderNavRoute assigns it
    /\ screenH = 0
    /\ currentCarPos = Point(0, 0)
    /\ mapTransformEl = FALSE
    /\ transform = NoTransform
    /\ route = <<>>
    /\ scene = 0
    /\ glitchTriggered = FALSE
    /\ countdown = 0
    /\ glitchTimer = FALSE
    /\ glitchStage = 0
    /\ popupVisible = FALSE
    /\ lastOp = "load"
    /\ rawOffset = Point(0, 0)
    /\ glitchCalls = [timers |-> 0, full |-> 0, popup |-> 0]
    /\ requestTimer = REQUEST_SECONDS
    /\ reqInterval = reqTimerInterval
    /\ tripOn = FALSE
    /\ tripProgress = 0
    /\ tripStep = 0
    /\ roadOn = FALSE
    /\ roadIdx = 0
    /\ roadSet = "none"
    /\ grid = NoGrid
    /\ ctx = DefaultContext
    /\ drawLog = <<>>
    /\ prevLog = <<>>

Init ==
    /\ LoadedState
    /\ routeArgs = NoArgs
    /\ gridArgs = NoExtent
    /\ drawArgs = NoDraw

glitchVars == <<glitchTriggered, countdown, glitchTimer, glitchStage, glitchCalls>>

requestVars == <<requestTimer, reqInterval>>

tripVars == <<tripOn, tripProgress, tripStep>>

roadVars == <<roadOn, roadIdx, roadSet>>

timerVars == <<requestVars, tripVars, roadVars>>

gridVars == <<gridArgs, grid>>

drawVars == <<drawArgs, ctx, drawLog, prevLog>>

cameraVars == <<gpsBaseLatLng, gpsOffsetX, gpsOffsetY, screenW, screenH,
                currentCarPos, mapTransformEl, transform>>

\* A render that leaves the drift of the previous route in place.
renderNavRouteKeepDrift(routeStart, routeEnd) ==
    \E s \in Screens :
        /\ screenW' = s[1]
        /\ screenH' = s[2]
        /\ routeArgs' = [sx |-> routeStart.x, sy |-> routeStart.y,
                         ex |-> routeEnd.x, ey |-> routeEnd.y,
                         mapW |-> MAP_SCALE, mapH |-> MAP_SCALE]
        /\ route' = buildGridRoute(routeStart.x, routeStart.y, routeEnd.x, routeEnd.y,
                                   hYs, vXs, MAP_SCALE, MAP_SCALE)
        /\ currentCarPos' = Point(routeStart.x, routeStart.y)
        /\ mapTransformEl' = TRUE
        /\ gpsBaseLatLng' = NoBase
        /\ UNCHANGED <<gpsOffsetX, gpsOffsetY>>
        /\ transform' = updateMapTransform(mapTransformEl', transform, screenW', screenH',
                                           currentCarPos', gpsOffsetX', gpsOffsetY')
        /\ scene' = scene + 1
        /\ rawOffset' = rawOffset
        /\ gridArgs' = [mapW |-> MAP_SCALE, mapH |-> MAP_SCALE]
        /\ grid' = createFixedRoadGrid(MAP_SCALE, MAP_SCALE)

\* renderNavRoute(routeStart, routeEnd, labels)
renderNavRoute(routeStart, routeEnd) ==
    \E s \in Screens :
        /\ screenW' = s[1]
        /\ screenH' = s[2]
        /\ routeArgs' = [sx |-> routeStart.x, sy |-> routeStart.y,
                         ex |-> routeEnd.x, ey |-> routeEnd.y,
                         mapW |-> MAP_SCALE, mapH |-> MAP_SCALE]
        /\ route' = buildGridRoute(routeStart.x, routeStart.y, routeEnd.x, routeEnd.y,
                                   hYs, vXs, MAP_SCALE, MAP_SCALE)
        /\ currentCarPos' = Point(routeStart.x, routeStart.y)
        /\ mapTransformEl' = TRUE
        /\ gpsBaseLatLng' = NoBase
        /\ gpsOffsetX' = 0
        /\ gpsOffsetY' = 0
        /\ transform' = updateMapTransform(mapTransformEl', transform, screenW', screenH',
                                           currentCarPos', gpsOffsetX', gpsOffsetY')
        /\ scene' = scene + 1
        /\ rawOffset' = rawOffset
        /\ gridArgs' = [mapW |-> MAP_SCALE, mapH |-> MAP_SCALE]
        /\ grid' = createFixedRoadGrid(MAP_SCALE, MAP_SCALE)

\* clearInterval(reqTimerInterval): stops the interval with that id, if live.
clearRequestTimer ==
    reqInterval' = IF reqInterval = reqTimerInterval THEN 0 ELSE reqInterval

\* startTripProgress: a fresh `progress`, the previous interval cleared.
startTripProgress ==
    /\ tripOn' = TRUE
    /\ tripProgress' = 0
    /\ tripStep' = TRIP_STEP_ACCEPT

\* startRoadNameRotation
startRoadNameRotation ==
    /\ roadOn' = TRUE
    /\ roadIdx' = 0
    /\ roadSet' = "dadar"

\* startJogeshwariRoadRotation
startJogeshwariRoadRotation ==
    /\ roadOn' = TRUE
    /\ roadIdx' = 0
    /\ roadSet' = "jogeshwari"

\* btnAccept click handler
Accept ==
    /\ screen = "request"
    /\ clearRequestTimer
    /\ screen' = "map"
    /\ renderNavRoute(AcceptStart, AcceptEnd)
    /\ startTripProgress
    /\ startRoadNameRotation
    /\ gpsWatch' = initGPSTracking(hasGeo, gpsWatch, scene')
    /\ lastOp' = "accept"
    /\ UNCHANGED drawVars
    /\ UNCHANGED <<hasGeo, glitchVars, popupVisible, requestTimer>>

\* A position callback that stores the drift and forgets to refresh the view.
GPSPositionNoRefresh ==
    /\ gpsWatch.on
    /\ \E lat \in Lats, lng \in Lngs :
        IF ~gpsBaseLatLng.set
        THEN /\ gpsBaseLatLng' = [set |-> TRUE, lat |-> lat, lng |-> lng]
             /\ lastOp' = "gps_base"
             /\ UNCHANGED <<gridVars, drawVars>>
             /\ UNCHANGED <<gpsOffsetX, gpsOffsetY, rawOffset>>
        ELSE LET raw == RawOffset(lat, lng, gpsBaseLatLng)
                 off == ClampOffset(raw)
             IN  /\ gpsOffsetX' = off.x
                 /\ gpsOffsetY' = off.y
                 /\ rawOffset' = raw
                 /\ lastOp' = "gps_position"
                 /\ UNCHANGED <<gridVars, drawVars>>
                 /\ UNCHANGED gpsBaseLatLng
    /\ UNCHANGED timerVars
    /\ UNCHANGED <<screen, hasGeo, gpsWatch, screenW, screenH, currentCarPos,
                   mapTransformEl, transform, routeArgs, route, scene, glitchVars,
                   popupVisible>>

\* A position callback that moves the baseline to every fix it receives.
GPSPositionRebase ==
    /\ gpsWatch.on
    /\ \E lat \in Lats, lng \in Lngs :
        IF ~gpsBaseLatLng.set
        THEN /\ gpsBaseLatLng' = [set |-> TRUE, lat |-> lat, lng |-> lng]
             /\ lastOp' = "gps_base"
             /\ UNCHANGED <<gridVars, drawVars>>
             /\ UNCHANGED <<gpsOffsetX, gpsOffsetY, transform, rawOffset>>
        ELSE LET raw == RawOffset(lat, lng, gpsBaseLatLng)
                 off == ClampOffset(raw)
             IN  /\ gpsOffsetX' = off.x
                 /\ gpsOffsetY' = off.y
                 /\ rawOffset' = raw
                 /\ transform' = updateMapTransform(mapTransformEl, transform, screenW,
                                     screenH, currentCarPos, gpsOffsetX', gpsOffsetY')
                 /\ lastOp' = "gps_position"
                 /\ UNCHANGED <<gridVars, drawVars>>
                 /\ gpsBaseLatLng' = [set |-> TRUE, lat |-> lat, lng |-> lng]
    /\ UNCHANGED timerVars
    /\ UNCHANGED <<screen, hasGeo, gpsWatch, screenW, screenH, currentCarPos,
                   mapTransformEl, routeArgs, route, scene, glitchVars, popupVisible>>

\* The success callback of watchPosition.
GPSPosition ==
    /\ gpsWatch.on
    /\ \E lat \in Lats, lng \in Lngs :
        IF ~gpsBaseLatLng.set
        THEN /\ gpsBaseLatLng' = [set |-> TRUE, lat |-> lat, lng |-> lng]
             /\ lastOp' = "gps_base"
             /\ UNCHANGED <<gridVars, drawVars>>
             /\ UNCHANGED <<gpsOffsetX, gpsOffsetY, transform, rawOffset>>
        ELSE LET raw == RawOffset(lat, lng, gpsBaseLatLng)
                 off == ClampOffset(raw)
             IN  /\ gpsOffsetX' = off.x
                 /\ gpsOffsetY' = off.y
                 /\ rawOffset' = raw
                 /\ transform' = updateMapTransform(mapTransformEl, transform, screenW,
                                     screenH, currentCarPos, gpsOffsetX', gpsOffsetY')
                 /\ lastOp' = "gps_position"
                 /\ UNCHANGED <<gridVars, drawVars>>
                 /\ UNCHANGED gpsBaseLatLng
    /\ UNCHANGED timerVars
    /\ UNCHANGED <<screen, hasGeo, gpsWatch, screenW, screenH, currentCarPos,
                   mapTransformEl, routeArgs, route, scene, glitchVars, popupVisible>>

\* An error callback that falls back to the origin.
GPSErrorReset ==
    /\ gpsWatch.on
    /\ lastOp' = "gps_error"
    /\ UNCHANGED <<gridVars, drawVars>>
    /\ gpsOffsetX' = 0
    /\ gpsOffsetY' = 0
    /\ transform' = updateMapTransform(mapTransformEl, transform, screenW,
                        screenH, currentCarPos, gpsOffsetX', gpsOffsetY')
    /\ UNCHANGED timerVars
    /\ UNCHANGED <<screen, hasGeo, gpsWatch, gpsBaseLatLng, screenW, screenH,
                   currentCarPos, mapTransformEl, routeArgs, route, scene,
                   glitchVars, popupVisible, rawOffset>>

\* The error callback of watchPosition: console.log only.
GPSError ==
    /\ gpsWatch.on
    /\ lastOp' = "gps_error"
    /\ UNCHANGED <<gridVars, drawVars>>
    /\ UNCHANGED timerVars
    /\ UNCHANGED <<screen, hasGeo, gpsWatch, cameraVars, routeArgs, route, scene,
                   glitchVars, popupVisible, rawOffset>>

\* An avatar handler without the glitchTriggered guard.
AvatarClickNoGuard ==
    /\ glitchTriggered' = TRUE
    /\ countdown' = GLITCH_COUNTDOWN
    /\ glitchTimer' = TRUE
    /\ glitchCalls' = [glitchCalls EXCEPT !.timers = @ + 1]
    /\ UNCHANGED glitchStage
    /\ lastOp' = "avatar"
    /\ UNCHANGED <<gridVars, drawVars>>
    /\ UNCHANGED timerVars
    /\ UNCHANGED <<screen, hasGeo, gpsWatch, cameraVars, routeArgs, route, scene,
                   popupVisible, rawOffset>>

\* glitchTriggerAvatar click handler
AvatarClick ==
    /\ IF glitchTriggered
       THEN UNCHANGED glitchVars
       ELSE /\ glitchTriggered' = TRUE
            /\ countdown' = GLITCH_COUNTDOWN
            /\ glitchTimer' = TRUE
            /\ glitchCalls' = [glitchCalls EXCEPT !.timers = @ + 1]
            /\ UNCHANGED glitchStage
    /\ lastOp' = "avatar"
    /\ UNCHANGED <<gridVars, drawVars>>
    /\ UNCHANGED timerVars
    /\ UNCHANGED <<screen, hasGeo, gpsWatch, cameraVars, routeArgs, route, scene,
                   popupVisible, rawOffset>>

\* One tick of the avatar handler's setInterval callback; at zero it clears
\* its interval and calls triggerFullGlitch.
GlitchTick ==
    /\ glitchTimer
    /\ countdown' = countdown - 1
    /\ IF countdown' <= 0
       THEN /\ glitchTimer' = FALSE
            /\ glitchStage' = 1
            /\ glitchCalls' = [glitchCalls EXCEPT !.full = @ + 1]
       ELSE UNCHANGED <<glitchTimer, glitchStage, glitchCalls>>
    /\ lastOp' = "glitch_tick"
    /\ UNCHANGED <<gridVars, drawVars>>
    /\ UNCHANGED timerVars
    /\ UNCHANGED <<screen, hasGeo, gpsWatch, cameraVars, routeArgs, route, scene,
                   glitchTriggered, popupVisible, rawOffset>>

\* The nested setTimeout callbacks of triggerFullGlitch; the last one calls
\* showPopup.
GlitchTimeout ==
    /\ glitchStage \in 1..3
    /\ glitchStage' = IF glitchStage = 3 THEN 0 ELSE glitchStage + 1
    /\ popupVisible' = IF glitchStage = 3 THEN TRUE ELSE popupVisible
    /\ glitchCalls' = IF glitchStage = 3
                      THEN [glitchCalls EXCEPT !.popup = @ + 1] ELSE glitchCalls
    /\ lastOp' = "glitch_timeout"
    /\ UNCHANGED <<gridVars, drawVars>>
    /\ UNCHANGED timerVars
    /\ UNCHANGED <<screen, hasGeo, gpsWatch, cameraVars, routeArgs, route, scene,
                   glitchTriggered, countdown, glitchTimer, rawOffset>>

\* A popup handler that ends the subscription of the route it replaces.
PopupOkUnsubscribe ==
    /\ popupVisible
    /\ popupVisible' = FALSE
    /\ renderNavRoute(PopupStart, PopupEnd)
    /\ startJogeshwariRoadRotation
    /\ tripOn' = TRUE /\ tripProgress' = 0 /\ tripStep' = TRIP_STEP_POPUP
    /\ gpsWatch' = NoWatch
    /\ lastOp' = "popup_ok"
    /\ UNCHANGED drawVars
    /\ UNCHANGED <<screen, hasGeo, glitchVars, requestVars>>

\* popupOkBtn click handler
PopupOk ==
    /\ popupVisible
    /\ popupVisible' = FALSE
    /\ renderNavRoute(PopupStart, PopupEnd)
    /\ startJogeshwariRoadRotation
    /\ tripOn' = TRUE /\ tripProgress' = 0 /\ tripStep' = TRIP_STEP_POPUP
    /\ lastOp' = "popup_ok"
    /\ UNCHANGED drawVars
    /\ UNCHANGED <<screen, hasGeo, gpsWatch, glitchVars, requestVars>>

\* The handlers and the drift callbacks.  The interval callbacks of the
\* request timer, the trip progress and the road-name rotation are left to
\* TimerSpec: they read and write timerVars only.
Next ==
    \/ Accept
    \/ GPSPosition
    \/ GPSError
    \/ AvatarClick
    \/ GlitchTick
    \/ GlitchTimeout
    \/ PopupOk

Spec == Init /\ [][Next]_vars

(***************************************************************************)
(* The interval callbacks, and the application with them.                  *)
(***************************************************************************)
MaxReqTimers == 2

MaxTripTicks == 2

\* One tick of the interval of startRequestTimer.  At zero the callback
\* clears its own interval, resets requestTimer and calls startRequestTimer,
\* whose new interval id is returned to nobody.
RequestTick ==
    /\ reqInterval # 0
    /\ requestTimer > 1 \/ reqInterval < MaxReqTimers
    /\ IF requestTimer - 1 <= 0
       THEN /\ requestTimer' = REQUEST_SECONDS
            /\ reqInterval' = reqInterval + 1
       ELSE /\ requestTimer' = requestTimer - 1
            /\ UNCHANGED reqInterval
    /\ lastOp' = "request_tick"
    /\ UNCHANGED <<gridVars, drawVars>>
    /\ UNCHANGED <<tripVars, roadVars>>
    /\ UNCHANGED <<screen, hasGeo, gpsWatch, cameraVars, routeArgs, route, scene,
                   glitchVars, popupVisible, rawOffset>>

\* A trip tick that also advances the car to the next waypoint of the route.
TripTickMovesCar ==
    /\ tripOn
    /\ tripProgress < MaxTripTicks * tripStep
    /\ tripProgress' = Min(tripProgress + tripStep, TRIP_FULL)
    /\ tripOn' = (tripProgress' < TRIP_FULL)
    /\ currentCarPos' = route[2]
    /\ transform' = updateMapTransform(mapTransformEl, transform, screenW, screenH,
                                       currentCarPos', gpsOffsetX, gpsOffsetY)
    /\ lastOp' = "trip_tick"
    /\ UNCHANGED <<gridVars, drawVars>>
    /\ UNCHANGED <<tripStep, requestVars, roadVars>>
    /\ UNCHANGED <<screen, hasGeo, gpsWatch, gpsBaseLatLng, gpsOffsetX, gpsOffsetY,
                   screenW, screenH, mapTransformEl, routeArgs, route, scene,
                   glitchVars, popupVisible, rawOffset>>

\* One tick of the trip-progress interval (startTripProgress, or the one the
\* popup handler starts): progress advances, capped at 100, where the
\* interval is cleared.
TripTick ==
    /\ tripOn
    /\ tripProgress < MaxTripTicks * tripStep
    /\ tripProgress' = Min(tripProgress + tripStep, TRIP_FULL)
    /\ tripOn' = (tripProgress' < TRIP_FULL)
    /\ lastOp' = "trip_tick"
    /\ UNCHANGED <<gridVars, drawVars>>
    /\ UNCHANGED <<tripStep, requestVars, roadVars>>
    /\ UNCHANGED <<screen, hasGeo, gpsWatch, cameraVars, routeArgs, route, scene,
                   glitchVars, popupVisible, rawOffset>>

\* One tick of the road-name rotation interval.
RoadTick ==
    /\ roadOn
    /\ roadIdx' = (roadIdx + 1) % ROAD_NAMES
    /\ lastOp' = "road_tick"
    /\ UNCHANGED <<gridVars, drawVars>>
    /\ UNCHANGED <<roadOn, roadSet, requestVars, tripVars>>
    /\ UNCHANGED <<screen, hasGeo, gpsWatch, cameraVars, routeArgs, route, scene,
                   glitchVars, popupVisible, rawOffset>>

\* The inputs drawn under TimerSpec: a geolocation API is present, the map
\* container has one size, the baseline fix is at the origin and later fixes
\* are there or at one position away from it.
TimerFixes ==
    /\ gpsBaseLatLng'.lat = LatOf(0, 0)
    /\ gpsBaseLatLng'.lng = 0
    /\ rawOffset' \in { Point(0, 0), Point(60, -60) }

TimerScreen == screenW' = 375 /\ screenH' = 667

TimerInit == Init /\ hasGeo

TimerNext ==
    \/ Accept /\ TimerScreen
    \/ GPSPosition /\ TimerFixes
    \/ GPSError
    \/ AvatarClick
    \/ GlitchTick
    \/ GlitchTimeout
    \/ PopupOk /\ TimerScreen
    \/ RequestTick
    \/ TripTick
    \/ RoadTick

TimerSpec == TimerInit /\ [][TimerNext]_vars

(***************************************************************************)
(* buildGridRoute as a pure function: the arguments are drawn in the       *)
(* initial state and one call is made.                                     *)
(***************************************************************************)
FarOut == 5000

RouteXs == { -FarOut, 8, 10, 12, 14, 96, 98, 100, 168, 260, 580, MAP_SCALE + FarOut }

RouteYs == { -FarOut, 12, 20, 72, 74, 120, 456, 850, MAP_SCALE + FarOut }

\* Extents whose lattice lines are whole numbers.
Extents == { <<MAP_SCALE, MAP_SCALE>>, <<100, 200>> }

RouteInit ==
    /\ LoadedState
    /\ \E sx \in RouteXs, sy \in RouteYs, ex \in RouteXs, ey \in RouteYs, e \in Extents :
           routeArgs = [sx |-> sx, sy |-> sy, ex |-> ex, ey |-> ey,
                        mapW |-> e[1], mapH |-> e[2]]
    /\ gridArgs = NoExtent
    /\ drawArgs = NoDraw

CallBuildGridRoute ==
    /\ route = <<>>
    /\ route' = buildGridRoute(routeArgs.sx, routeArgs.sy, routeArgs.ex, routeArgs.ey,
                               hYs, vXs, routeArgs.mapW, routeArgs.mapH)
    /\ lastOp' = "buildGridRoute"
    /\ UNCHANGED <<gridVars, drawVars>>
    /\ UNCHANGED timerVars
    /\ UNCHANGED <<screen, hasGeo, gpsWatch, cameraVars, routeArgs, scene,
                   glitchVars, popupVisible, rawOffset>>

RouteNext == CallBuildGridRoute

RouteSpec == RouteInit /\ [][RouteNext]_vars

(***************************************************************************)
(* createFixedRoadGrid as a pure function: the extents are drawn in the    *)
(* initial state and one call is made.                                     *)
(***************************************************************************)
MaxGridUnits == 12

\* Extents at which every coordinate of the grid is a whole number.
GridExtents == { FRAC_DEN * k : k \in 1..MaxGridUnits }

GridInit ==
    /\ LoadedState
    /\ routeArgs = NoArgs
    /\ drawArgs = NoDraw
    /\ \E w \in GridExtents, h \in GridExtents : gridArgs = [mapW |-> w, mapH |-> h]

CallCreateFixedRoadGrid ==
    /\ grid = NoGrid
    /\ grid' = createFixedRoadGrid(gridArgs.mapW, gridArgs.mapH)
    /\ lastOp' = "createFixedRoadGrid"
    /\ UNCHANGED <<gridArgs, drawVars, timerVars>>
    /\ UNCHANGED <<screen, hasGeo, gpsWatch, cameraVars, routeArgs, route, scene,
                   glitchVars, popupVisible, rawOffset>>

GridNext == CallCreateFixedRoadGrid

GridSpec == GridInit /\ [][GridNext]_vars

(***************************************************************************)
(* drawMap on one drawing surface: the arguments are drawn in the initial  *)
(* state, the context is the one getContext has just created, and drawMap  *)
(* is called with those arguments again and again.                         *)
(***************************************************************************)
DrawRoadLists ==
    { <<>>,
      << Road(Point(0, 40), Point(100, 40), 3 * WIDTH_DEN, FALSE) >>,
      << Road(Point(20, 0), Point(20, 200), 7 * WIDTH_DEN, TRUE) >>,
      << HorizontalRoad(1, 100, 200), VerticalRoad(2, 100, 200),
         AngledRoads(100, 200)[1] >> }

Building(bx, by, bw, bh, isLit) ==
    [x |-> bx, y |-> by, w |-> bw, h |-> bh, color |-> "hsl(220, 15%, 12%)", lit |-> isLit]

DrawBuildingLists ==
    { <<>>,
      << Building(10, 10, 23, 19, FALSE) >>,
      << Building(10, 10, 23, 19, TRUE), Building(50, 60, 14, 40, TRUE) >> }

DrawOptions ==
    [ showWater : BOOLEAN,
      parks     : { <<>>, << [x |-> 30, y |-> 44, r |-> 25] >> },
      route     : { <<>>, buildGridRoute(58, 170, 26, 24, hYs, vXs, 100, 200) },
      dropPin   : { NoPin, [on |-> TRUE, x |-> 26, y |-> 24] },
      pickupPin : { NoPin, [on |-> TRUE, x |-> 48, y |-> 70] },
      labels    : { <<>>, << [text |-> "Dadar West", x |-> 5, y |-> 52] >> } ]

DrawInit ==
    /\ LoadedState
    /\ routeArgs = NoArgs
    /\ gridArgs = NoExtent
    /\ \E r \in DrawRoadLists, b \in DrawBuildingLists, o \in DrawOptions :
           drawArgs = [mapW |-> 100, mapH |-> 200, roads |-> r, buildings |-> b,
                       options |-> o]

CallDrawMap ==
    /\ LET d == drawMap(ctx, drawArgs.mapW, drawArgs.mapH, drawArgs.roads,
                        drawArgs.buildings, drawArgs.options)
       IN  /\ ctx' = d.ctx
           /\ drawLog' = d.log
    /\ prevLog' = drawLog
    /\ lastOp' = "drawMap"
    /\ UNCHANGED <<drawArgs, gridVars, timerVars>>
    /\ UNCHANGED <<screen, hasGeo, gpsWatch, cameraVars, routeArgs, route, scene,
                   glitchVars, popupVisible, rawOffset>>

DrawNext == CallDrawMap

DrawSpec == DrawInit /\ [][DrawNext]_vars

(***************************************************************************)
(* Properties of buildGridRoute, checked under RouteSpec.                  *)
(***************************************************************************)
RouteStart == Point(routeArgs.sx, routeArgs.sy)

RouteEnd == Point(routeArgs.ex, routeArgs.ey)

\* C1 (as stated): buildGridRoute returns between 2 and 6 points inclusive.
C1_LengthBetween2And6 ==
    route # <<>> => Len(route) >= 2 /\ Len(route) <= 6

\* C1 (amended): buildGridRoute returns between 4 and 7 points inclusive:
\* start, (vRoad1, hMid), (vRoad2, hMid) and end are always present, and up
\* to three conditional waypoints are added.
C1_LengthBetween4And7 ==
    route # <<>> => Len(route) >= 4 /\ Len(route) <= 7

C1_SevenPointRoute ==
    lastOp = "buildGridRoute" /\ Len(route) = 7

\* C2: every pair of consecutive route points has equal x or equal y.
C2_AxisAligned ==
    route # <<>> =>
        \A i \in 1..(Len(route) - 1) :
            route[i].x = route[i + 1].x \/ route[i].y = route[i + 1].y

\* C3: the first route point is the requested start and the last one is the
\* requested end, also for points far outside the extent.
C3_EndpointsExact ==
    route # <<>> => route[1] = RouteStart /\ route[Len(route)] = RouteEnd

C3_FarOutsideRoute ==
    /\ lastOp = "buildGridRoute"
    /\ routeArgs.sx = -FarOut
    /\ routeArgs.ey = MAP_SCALE + FarOut
    /\ route[1].x = -FarOut
    /\ route[Len(route)].y = MAP_SCALE + FarOut

\* C4: every interior route point has its x on a vertical lattice line or its
\* y on a horizontal lattice line of the grid the route was built on.
C4_InteriorOnLattice ==
    route # <<>> =>
        \A i \in 2..(Len(route) - 1) :
            \/ route[i].x \in VerticalLines(routeArgs.mapW)
            \/ route[i].y \in HorizontalLines(routeArgs.mapH)

C4_InteriorOnOneLineOnly ==
    /\ lastOp = "buildGridRoute"
    /\ \E i \in 2..(Len(route) - 1) :
           /\ route[i].x \notin VerticalLines(routeArgs.mapW)
           /\ route[i].y \in HorizontalLines(routeArgs.mapH)
    /\ \E i \in 2..(Len(route) - 1) :
           /\ route[i].x \in VerticalLines(routeArgs.mapW)
           /\ route[i].y \notin HorizontalLines(routeArgs.mapH)

(***************************************************************************)
(* Properties of the camera and the drift source, checked under Spec.      *)
(***************************************************************************)
\* C5: the stored drift offset is within [-100,100] x [-150,150] after every
\* handler, and a position callback stores the raw offset moved to the
\* nearest bound of each range (unchanged when inside).
C5_DriftClamped ==
    /\ gpsOffsetX >= -100 /\ gpsOffsetX <= 100
    /\ gpsOffsetY >= -150 /\ gpsOffsetY <= 150
    /\ lastOp = "gps_position" =>
         /\ gpsOffsetX = (IF rawOffset.x > 100 THEN 100
                          ELSE IF rawOffset.x < -100 THEN -100 ELSE rawOffset.x)
         /\ gpsOffsetY = (IF rawOffset.y > 150 THEN 150
                          ELSE IF rawOffset.y < -150 THEN -150 ELSE rawOffset.y)

C5_BothAxesClamped ==
    /\ lastOp = "gps_position"
    /\ rawOffset.x > 100 /\ gpsOffsetX = 100
    /\ rawOffset.y < -150 /\ gpsOffsetY = -150

\* C6 (as stated): a subscription is unsubscribed when its scene ends, so a
\* registered subscription always belongs to the current scene.
C6_WatchBelongsToCurrentScene ==
    gpsWatch.on => gpsWatch.scene = scene

\* C6 (amended): the subscription registered at Accept is never unsubscribed;
\* it stays registered, unchanged, across every later handler, route
\* replacement included.
C6_WatchNeverCleared ==
    [][gpsWatch.on => gpsWatch' = gpsWatch]_vars

C6_DriftFromEarlierScene ==
    /\ lastOp = "gps_position"
    /\ gpsWatch.on
    /\ gpsWatch.scene < scene
    /\ gpsOffsetX # 0

\* C7: with a zero drift offset the applied transform maps currentCarPos to
\* the screen centre: tx + x * ZOOM = screenW / 2, ty + y * ZOOM = screenH / 2.
C7_CenteredWithoutDrift ==
    (transform.applied /\ gpsOffsetX = 0 /\ gpsOffsetY = 0) =>
        /\ transform.scale = ZOOM_NUM
        /\ 2 * (transform.tx + currentCarPos.x * transform.scale) = ZOOM_DEN * screenW
        /\ 2 * (transform.ty + currentCarPos.y * transform.scale) = ZOOM_DEN * screenH

C7_RecenteredByCallback ==
    /\ lastOp = "gps_position"
    /\ transform.applied
    /\ gpsOffsetX = 0 /\ gpsOffsetY = 0
    /\ currentCarPos = PopupStart

\* C8: without a geolocation API nothing is subscribed and the drift offset
\* stays at the origin; an error callback leaves the baseline, the drift
\* offset, the tracked position and the applied transform as they were.
C8_ErrorLeavesCamera ==
    /\ [](~hasGeo => (~gpsWatch.on /\ gpsOffsetX = 0 /\ gpsOffsetY = 0))
    /\ [][lastOp' = "gps_error" =>
            UNCHANGED <<gpsBaseLatLng, gpsOffsetX, gpsOffsetY, currentCarPos,
                        screenW, screenH, transform>>]_vars

C8_ErrorAfterDrift ==
    /\ lastOp = "gps_error"
    /\ gpsOffsetX # 0
    /\ gpsOffsetY # 0

\* C9: right after a renderNavRoute call the tracked position is routeStart,
\* the drift offset is (0,0) and the transform centres routeStart.
C9_RenderResetsCamera ==
    lastOp \in {"accept", "popup_ok"} =>
        /\ currentCarPos = (IF lastOp = "accept" THEN AcceptStart ELSE PopupStart)
        /\ currentCarPos = RouteStart
        /\ gpsOffsetX = 0 /\ gpsOffsetY = 0
        /\ transform.applied
        /\ 2 * (transform.tx + RouteStart.x * ZOOM_NUM) = ZOOM_DEN * screenW
        /\ 2 * (transform.ty + RouteStart.y * ZOOM_NUM) = ZOOM_DEN * screenH

C9_RenderAfterDrift ==
    /\ lastOp = "popup_ok"
    /\ rawOffset.x # 0
    /\ rawOffset.y # 0

\* C10: after every handler the applied transform is the formula evaluated on
\* the current currentCarPos, gpsOffsetX, gpsOffsetY, screenW and screenH, and
\* a render never carries the drift offset or baseline of the route before it
\* into the new route.
C10_TransformConsistent ==
    mapTransformEl =>
        /\ transform.applied
        /\ 2 * (transform.tx + currentCarPos.x * ZOOM_NUM - ZOOM_DEN * gpsOffsetX)
             = ZOOM_DEN * screenW
        /\ 2 * (transform.ty + currentCarPos.y * ZOOM_NUM - ZOOM_DEN * gpsOffsetY)
             = ZOOM_DEN * screenH

C10_TransformNotTorn ==
    /\ []C10_TransformConsistent
    /\ [][scene' # scene =>
            (gpsOffsetX' = 0 /\ gpsOffsetY' = 0 /\ ~gpsBaseLatLng'.set)]_vars

C10_DriftOnSecondRoute ==
    /\ lastOp = "gps_position"
    /\ scene = 2
    /\ currentCarPos = PopupStart
    /\ gpsOffsetX # 0
    /\ gpsOffsetY # 0

(***************************************************************************)
(* Further properties of buildGridRoute, checked under RouteSpec.          *)
(***************************************************************************)
\* v is the line of `fracs` nearest to tNum / tDen, and the first such line
\* in lattice order.
IsFirstNearest(fracs, extent, v, tNum, tDen) ==
    \E i \in 1..Len(fracs) :
        /\ LatticeLine(fracs[i], extent) = v
        /\ \A j \in 1..Len(fracs) :
             LET di == Abs(LatticeLine(fracs[i], extent) * tDen - tNum)
                 dj == Abs(LatticeLine(fracs[j], extent) * tDen - tNum)
             IN  di <= dj /\ (di = dj => i <= j)

\* The index of (vRoad1, hMid) in the route: 3 when (vRoad1, sy) precedes it.
MidIndex == IF Abs(route[2].x - routeArgs.sx) > 3 THEN 3 ELSE 2

\* C12: the lines buildGridRoute snaps to (vRoad1, hMid, vRoad2 and, when the
\* second jog is made, hEnd) are at minimal absolute distance from their
\* targets, and of two equally near lines the first in lattice order is taken.
C12_NearestFirstInOrder ==
    route # <<>> =>
        /\ IsFirstNearest(vXs, routeArgs.mapW, route[2].x, routeArgs.sx, 1)
        /\ IsFirstNearest(hYs, routeArgs.mapH, route[MidIndex].y,
                          45 * (routeArgs.sy + routeArgs.ey), 100)
        /\ IsFirstNearest(vXs, routeArgs.mapW, route[MidIndex + 1].x, routeArgs.ex, 1)
        /\ Len(route) > MidIndex + 2 =>
             IsFirstNearest(hYs, routeArgs.mapH, route[MidIndex + 2].y, routeArgs.ey, 1)

C12_TieTakesFirstLine ==
    /\ lastOp = "buildGridRoute"
    /\ routeArgs.mapW = 1200 /\ routeArgs.mapH = 1200
    /\ routeArgs.sx = 168 /\ route[2].x = 96
    /\ routeArgs.ey = 120 /\ Len(route) > MidIndex + 2 /\ route[MidIndex + 2].y = 72

\* The line of `fracs` that IsFirstNearest singles out.
FirstNearest(fracs, extent, tNum, tDen) ==
    CHOOSE v \in { LatticeLine(fracs[i], extent) : i \in 1..Len(fracs) } :
        IsFirstNearest(fracs, extent, v, tNum, tDen)

\* The sequence the claim lists, built from the arguments alone.
ListedRoute ==
    LET sx == routeArgs.sx
        sy == routeArgs.sy
        ex == routeArgs.ex
        ey == routeArgs.ey
        vRoad1 == FirstNearest(vXs, routeArgs.mapW, sx, 1)
        vRoad2 == FirstNearest(vXs, routeArgs.mapW, ex, 1)
        hEnd   == FirstNearest(hYs, routeArgs.mapH, ey, 1)
        hMid   == FirstNearest(hYs, routeArgs.mapH, 45 * (sy + ey), 100)
    IN  <<Point(sx, sy)>>
        \o (IF Abs(vRoad1 - sx) > 3 THEN <<Point(vRoad1, sy)>> ELSE <<>>)
        \o <<Point(vRoad1, hMid), Point(vRoad2, hMid)>>
        \o (IF Abs(hEnd - hMid) > 20
            THEN <<Point(vRoad2, hEnd)>>
                 \o (IF Abs(vRoad2 - ex) > 3 THEN <<Point(ex, hEnd)>> ELSE <<>>)
            ELSE <<>>)
        \o <<Point(ex, ey)>>

\* C16: buildGridRoute returns exactly start, (vRoad1, sy) iff
\* |vRoad1 - sx| > 3, (vRoad1, hMid), (vRoad2, hMid), then iff
\* |hEnd - hMid| > 20 (vRoad2, hEnd) and, iff also |vRoad2 - ex| > 3,
\* (ex, hEnd), then end; coinciding points are kept.
C16_ExactSequence ==
    route # <<>> => route = ListedRoute

C16_CoincidingPointsKept ==
    /\ lastOp = "buildGridRoute"
    /\ Len(route) = 7
    /\ \E i \in 1..(Len(route) - 1) : route[i] = route[i + 1]

(***************************************************************************)
(* Further properties of the camera and the drift source, under Spec.      *)
(***************************************************************************)
\* C17: the image of currentCarPos under the applied transform is displaced
\* from the screen centre by exactly the stored drift offset, hence by at
\* most 100 pixels horizontally and 150 pixels vertically.  Displacements are
\* in units of 1 / (2 * ZOOM_DEN) pixel.
C17_DisplacementIsDrift ==
    transform.applied =>
        LET dx == 2 * (transform.tx + currentCarPos.x * transform.scale) - ZOOM_DEN * screenW
            dy == 2 * (transform.ty + currentCarPos.y * transform.scale) - ZOOM_DEN * screenH
        IN  /\ dx = 2 * ZOOM_DEN * gpsOffsetX
            /\ dy = 2 * ZOOM_DEN * gpsOffsetY
            /\ Abs(dx) <= 2 * ZOOM_DEN * 100
            /\ Abs(dy) <= 2 * ZOOM_DEN * 150

C17_DisplacedToTheLimit ==
    /\ lastOp = "gps_position"
    /\ transform.applied
    /\ 2 * (transform.tx + currentCarPos.x * transform.scale) - ZOOM_DEN * screenW
         = -(2 * ZOOM_DEN * 100)
    /\ 2 * (transform.ty + currentCarPos.y * transform.scale) - ZOOM_DEN * screenH
         = 2 * ZOOM_DEN * 150

\* C19: after a render has cleared the baseline, the first fix only records
\* the baseline (drift offset stays (0,0), transform untouched); every later
\* fix leaves the baseline alone and computes its raw offset from it.
C19_FirstFixOnlyRecordsBase ==
    /\ [](~gpsBaseLatLng.set => (gpsOffsetX = 0 /\ gpsOffsetY = 0))
    /\ [][(~gpsBaseLatLng.set /\ gpsBaseLatLng'.set) =>
            /\ lastOp' = "gps_base"
            /\ UNCHANGED <<gridVars, drawVars>>
            /\ gpsOffsetX' = 0 /\ gpsOffsetY' = 0
            /\ transform' = transform]_vars
    /\ [][lastOp' = "gps_position" =>
            /\ gpsBaseLatLng.set
            /\ gpsBaseLatLng' = gpsBaseLatLng
            /\ \E lat \in Lats, lng \in Lngs :
                 /\ rawOffset'.y = -(3 * (lat - gpsBaseLatLng.lat))
                 /\ rawOffset'.x =
                      3 * (((lng - gpsBaseLatLng.lng) * CosMilli(lat)) \div 1000)]_vars

C19_FirstFixAfterSecondRender ==
    /\ lastOp = "gps_base"
    /\ scene = 2
    /\ gpsWatch.on /\ gpsWatch.scene = 1
    /\ rawOffset.x # 0
    /\ gpsOffsetX = 0 /\ gpsOffsetY = 0

(***************************************************************************)
(* Properties of the timers.                                               *)
(***************************************************************************)
\* C20: however often the avatar is clicked, the first click has started
\* exactly one countdown interval, and triggerFullGlitch and showPopup have
\* each been called at most once.
C20_GlitchRunsOnce ==
    /\ glitchCalls.timers = (IF glitchTriggered THEN 1 ELSE 0)
    /\ lastOp = "avatar" => glitchCalls.timers = 1
    /\ glitchCalls.full <= 1
    /\ glitchCalls.popup <= 1

C20_ClickAfterPopup ==
    /\ lastOp = "avatar"
    /\ glitchCalls.popup = 1
    /\ glitchCalls.full = 1
    /\ ~glitchTimer

\* C15: currentCarPos changes only in a step of renderNavRoute (Accept or the
\* popup handler); position and error callbacks and every interval tick
\* leave it as it was.
C15_OnlyRenderMovesCar ==
    [][currentCarPos' # currentCarPos => lastOp' \in {"accept", "popup_ok"}]_vars

C15_TickUnderDrift ==
    /\ lastOp \in {"trip_tick", "road_tick", "request_tick"}
    /\ gpsOffsetX # 0
    /\ currentCarPos = AcceptStart
    /\ tripProgress > 0 /\ roadIdx > 0

\* C18: once Accept has been clicked (the map screen is active) the request
\* countdown never ticks again.
C18_NoRequestTickAfterAccept ==
    lastOp = "request_tick" => screen = "request"

(***************************************************************************)
(* Properties of createFixedRoadGrid, checked under GridSpec.              *)
(***************************************************************************)
\* The roads of the grid that run along the horizontal line y = c, and along
\* the vertical line x = c: both endpoints have that coordinate.
RoadsAlongY(c) ==
    { k \in DOMAIN grid.roads :
        grid.roads[k].points[1].y = c /\ grid.roads[k].points[2].y = c }

RoadsAlongX(c) ==
    { k \in DOMAIN grid.roads :
        grid.roads[k].points[1].x = c /\ grid.roads[k].points[2].x = c }

\* C13: in the grid createFixedRoadGrid(mapW, mapH) returns, exactly one road
\* runs along each horizontal lattice line y = mapH * frac and exactly one
\* along each vertical lattice line x = mapW * frac, both of its endpoints
\* having that coordinate.
C13_OneRoadPerLatticeLine ==
    grid # NoGrid =>
        /\ \A i \in DOMAIN grid.hYs :
               Cardinality(RoadsAlongY(LatticeLine(grid.hYs[i], gridArgs.mapH))) = 1
        /\ \A i \in DOMAIN grid.vXs :
               Cardinality(RoadsAlongX(LatticeLine(grid.vXs[i], gridArgs.mapW))) = 1

C13_GridOfTallMap ==
    /\ lastOp = "createFixedRoadGrid"
    /\ gridArgs.mapW < gridArgs.mapH
    /\ Len(grid.roads) = Len(grid.hYs) + Len(grid.vXs) + 2
    /\ Cardinality(RoadsAlongY(LatticeLine(grid.hYs[1], gridArgs.mapH))) = 1

(***************************************************************************)
(* Properties of drawMap, checked under DrawSpec.                          *)
(***************************************************************************)
\* C11: a second call of drawMap with the same arguments on the same surface
\* issues the same sequence of drawing operations as the call before it, each
\* with the same effective drawing state.
C11_SecondCallSameDrawing ==
    prevLog # <<>> => drawLog = prevLog

====
